---- MODULE Spec2Model ----
(***************************************************************************)
(* Houle Electric invoice generator (src/app.py): validation of the       *)
(* uploaded charges table, cleaning, two-level grouping, totals, and the  *)
(* page layout of create_pdf.                                             *)
(*                                                                         *)
(* Conventions.  Text is a sequence of one-character strings, so that     *)
(* strip / lower / replace / split act on characters.  Money is an        *)
(* integer number of cents; gst_amount and total_due are kept in          *)
(* hundredths of a cent so that the 5% product is exact.  The vertical    *)
(* cursor y is in points on a letter page (height 792).                   *)
(***************************************************************************)
EXTENDS Integers, Sequences, FiniteSets, TLC

(* ------------------------------ bounds -------------------------------- *)
\* rows of a hand-built table
MaxRows == 2
\* rows of a bulk table (one service code per row)
MaxBulk == 12
\* longest text handed to wrap_text in SpecWrap
MaxLen == 5
\* largest character budget tried in SpecWrap
MaxBudget == 3

(* ------------------------------- text --------------------------------- *)
Upper == <<"A","B","C","D","E","F","G","H","I","J","K","L","M",
           "N","O","P","Q","R","S","T","U","V","W","X","Y","Z">>
Lower == <<"a","b","c","d","e","f","g","h","i","j","k","l","m",
           "n","o","p","q","r","s","t","u","v","w","x","y","z">>

IsSpace(c) == c = " "

\* str.lower() on one character
LowerChar(c) ==
  IF \E i \in 1..Len(Upper) : Upper[i] = c
  THEN Lower[CHOOSE i \in 1..Len(Upper) : Upper[i] = c]
  ELSE c

\* str.lower()
ToLower(s) == [i \in 1..Len(s) |-> LowerChar(s[i])]

\* str.replace(" ", "")
RemoveSpaces(s) == SelectSeq(s, LAMBDA c : c # " ")

\* str.strip(): drop leading and trailing whitespace
Strip(s) ==
  LET idx == {i \in 1..Len(s) : ~IsSpace(s[i])}
  IN IF idx = {} THEN <<>>
     ELSE LET lo == CHOOSE i \in idx : \A j \in idx : i <= j
              hi == CHOOSE i \in idx : \A j \in idx : i >= j
          IN SubSeq(s, lo, hi)

\* col.strip().lower().replace(" ", "")
NormCol(col) == RemoveSpaces(ToLower(Strip(col)))

\* n copies of character c
Rep(c, n) == [i \in 1..n |-> c]

\* str.split(): maximal runs of non-whitespace characters, in order
SplitWords(s) ==
  LET starts == {i \in 1..Len(s) : ~IsSpace(s[i]) /\ (i = 1 \/ IsSpace(s[i-1]))}
      EndOf(i) == CHOOSE j \in i..Len(s) :
                     /\ \A k \in i..j : ~IsSpace(s[k])
                     /\ (j = Len(s) \/ IsSpace(s[j+1]))
      RECURSIVE Build(_)
      Build(S) == IF S = {} THEN <<>>
                  ELSE LET i == CHOOSE x \in S : \A z \in S : x <= z
                       IN <<SubSeq(s, i, EndOf(i))>> \o Build(S \ {i})
  IN Build(starts)

\* text[i:i+max_chars] for i in range(0, len(text), max_chars)
Chunks(text, max_chars) ==
  LET n == (Len(text) + max_chars - 1) \div max_chars
  IN [k \in 1..n |->
        SubSeq(text, (k-1)*max_chars + 1,
               IF k*max_chars <= Len(text) THEN k*max_chars ELSE Len(text))]

\* the word loop of wrap_text: st = [lines, current_line]
WrapStep(st, word, max_chars) ==
  IF Len(st.cur) + Len(word) + 1 <= max_chars
  THEN [lines |-> st.lines,
        cur   |-> IF st.cur # <<>> THEN st.cur \o <<" ">> \o word ELSE word]
  ELSE [lines |-> Append(st.lines, st.cur), cur |-> word]

RECURSIVE WrapLoop(_, _, _, _)
WrapLoop(words, i, st, max_chars) ==
  IF i > Len(words) THEN st
  ELSE WrapLoop(words, i + 1, WrapStep(st, words[i], max_chars), max_chars)

\* the forced split, taken only when one over-long line was produced
ForceSplit(lines, text, max_chars) ==
  IF Len(lines) = 1 /\ Len(lines[1]) > max_chars
  THEN Chunks(text, max_chars)
  ELSE lines

wrap_text(text, max_chars) ==
  IF Len(text) <= max_chars THEN <<text>>
  ELSE LET st    == WrapLoop(SplitWords(text), 1,
                             [lines |-> <<>>, cur |-> <<>>], max_chars)
           lines == IF st.cur # <<>> THEN Append(st.lines, st.cur) ELSE st.lines
       IN ForceSplit(lines, text, max_chars)

\* "".join(lines)
RECURSIVE Concat(_)
Concat(ls) == IF ls = <<>> THEN <<>> ELSE Head(ls) \o Concat(Tail(ls))


(* ------------------------------ cells --------------------------------- *)
\* a spreadsheet cell: missing (NaN), text, or a number
NaN    == [k |-> "nan", s |-> <<>>, v |-> 0]
Str(s) == [k |-> "str", s |-> s,    v |-> 0]
Num(v) == [k |-> "num", s |-> <<>>, v |-> v]

\* pd.notna
notna(cell) == cell.k # "nan"

Digits == <<"0","1","2","3","4","5","6","7","8","9">>
IsDigit(c) == \E d \in 1..10 : Digits[d] = c
DigitVal(c) == (CHOOSE d \in 1..10 : Digits[d] = c) - 1

RECURSIVE DecimalValue(_)
DecimalValue(s) ==
  IF s = <<>> THEN 0
  ELSE 10 * DecimalValue(SubSeq(s, 1, Len(s) - 1)) + DigitVal(s[Len(s)])

\* whether pd.to_numeric can parse the cell (text of decimal digits parses)
Parses(cell) ==
  \/ cell.k = "num"
  \/ cell.k = "nan"
  \/ cell.k = "str" /\ Strip(cell.s) # <<>> /\ \A i \in 1..Len(Strip(cell.s)) : IsDigit(Strip(cell.s)[i])

\* pd.to_numeric(..., errors="coerce") of an amount cell: cents, or NaN
to_numeric_amount(cell) ==
  CASE cell.k = "num" -> cell
    [] cell.k = "str" /\ Parses(cell) -> Num(100 * DecimalValue(Strip(cell.s)))
    [] OTHER -> NaN

\* pd.to_numeric of a quantity cell that parses
to_numeric_qty(cell) ==
  IF cell.k = "str" THEN Num(DecimalValue(Strip(cell.s))) ELSE cell

(* ----------------------------- the table ------------------------------ *)
ColClient == <<"C","l","i","e","n","t">>
ColHR2    == <<"H","e","a","d","e","r"," ","R","e","f","e","r","e","n","c","e"," ","2">>
ColHR2u   == <<"H","E","A","D","E","R","R","E","F","E","R","E","N","C","E"," ","2">>
ColHU2    == <<"H","e","a","d","e","r"," ","U","s","e","r"," ","2">>
ColHU2v   == <<" ","h","e","a","d","e","r"," ","U","S","E","R","2"," ">>
ColHref   == <<"H","e","a","d","e","r"," ","r","e","f">>
ColBref   == <<"B","i","l","l","i","n","g"," ","R","e","f">>
ColBrefLc == <<"b","i","l","l","i","n","g"," ","r","e","f">>

KeyHR2 == <<"h","e","a","d","e","r","r","e","f","e","r","e","n","c","e","2">>
KeyHU2 == <<"h","e","a","d","e","r","u","s","e","r","2">>

HE01 == <<"H","E","0","1">>
XX01 == <<"X","X","0","1">>
UNSPECIFIED == <<"U","N","S","P","E","C","I","F","I","E","D">>

P1  == <<"P","O","1">>
P1p == <<" ","P","O","1"," ">>
P2  == <<"P","O","2">>
D1  == <<"D","O","C","1">>
D2  == <<"D","O","C","2">>
Blank == <<" ">>

\* a row holds one cell per column the table may carry; g1 and g2 are the
\* cells of the (at most two) outer-grouping candidates of the table
CellOf(row, col) ==
  CASE col = ColClient -> row.client
    [] col = ColHR2    -> row.g1
    [] col = ColHref   -> row.g1
    [] col = ColHU2    -> row.g2
    [] col = ColHU2v   -> row.g2
    [] col = ColHR2u   -> row.g2
    [] col = ColBref   -> row.bref
    [] OTHER           -> NaN

ColumnLists ==
  { <<ColClient, ColHR2, ColBref>>,
    <<ColClient, ColHU2v, ColBref>>,
    <<ColClient, ColHU2, ColHR2, ColBref>>,
    <<ColClient, ColHR2, ColHR2u, ColBref>>,
    <<ColClient, ColHref, ColBref>>,
    <<ColHR2, ColBref>>,
    <<ColClient, ColHR2>>,
    <<ColClient, ColBref>>,
    <<ColClient, ColHR2, ColBrefLc>> }

\* descriptions: one short, one of twenty 18-letter words
ShortDesc == <<"x">>
RECURSIVE WordsOf(_, _)
WordsOf(n, w) == IF n = 1 THEN Rep("a", w)
                 ELSE Rep("a", w) \o <<" ">> \o WordsOf(n - 1, w)
LongDesc == WordsOf(20, 18)

BaseRow == [client |-> Str(HE01), g1 |-> Str(P1), g2 |-> Str(P2), bref |-> Str(D1),
            svc |-> 1, desc |-> ShortDesc, unit |-> "EA",
            qty |-> Num(1), amt |-> Num(10000)]

RowDomain ==
  { BaseRow,
    [BaseRow EXCEPT !.bref = Str(D2), !.svc = 2, !.amt = Num(5000)],
    [BaseRow EXCEPT !.g1 = Str(P2), !.g2 = Str(P1), !.qty = Num(2)],
    [BaseRow EXCEPT !.g1 = NaN, !.g2 = NaN],
    [BaseRow EXCEPT !.g1 = Str(Blank), !.bref = NaN, !.amt = Num(5000)],
    [BaseRow EXCEPT !.g1 = Str(P1p), !.g2 = Str(Blank), !.bref = Str(Blank)],
    [BaseRow EXCEPT !.amt = Num(0)],
    [BaseRow EXCEPT !.amt = Num(-100), !.svc = 2],
    [BaseRow EXCEPT !.amt = Str(<<"n","/","a">>)],
    [BaseRow EXCEPT !.amt = Str(<<"5","0">>), !.qty = Str(<<"3">>)],
    [BaseRow EXCEPT !.amt = NaN],
    [BaseRow EXCEPT !.client = Str(XX01)],
    [BaseRow EXCEPT !.desc = LongDesc],
    [BaseRow EXCEPT !.qty = Str(<<"t","w","o">>)] }

\* hand-built tables of up to MaxRows rows, over every column list
SmallRowSeqs == UNION {[1..n -> RowDomain] : n \in 0..MaxRows}

\* bulk tables: n charges of n different service codes under one document
BulkRows(n) == [i \in 1..n |-> [BaseRow EXCEPT !.svc = i]]
BulkTables == {[columns |-> <<ColClient, ColHR2, ColBref>>, rows |-> BulkRows(n)] :
                 n \in 3..MaxBulk}

Tables == {[columns |-> c, rows |-> r] : c \in ColumnLists, r \in SmallRowSeqs}
            \cup BulkTables

(* ------------------------------ state --------------------------------- *)
VARIABLES
  columns,        \* df.columns
  rows,           \* the rows of df
  pc,             \* position in the script
  err,            \* which st.error was shown ("" if none)
  reported,       \* the column names listed in the grouping-column error
  po_group_col,   \* detected outer-grouping column (<<>> if none)
  df_clean,       \* cleaned rows, each with its index label in df
  gi,             \* position of the grouping loop in df_clean
  po_groups,      \* outer key -> inner key -> lines, insertion ordered
  grand_subtotal, \* cents
  gst_amount,     \* hundredths of a cent
  total_due,      \* hundredths of a cent
  y,              \* vertical cursor of create_pdf
  page_num,       \* page counter of create_pdf (0 before create_pdf runs)
  hdrOnPage,      \* the current page carries the company/invoice header
  lastBreak,      \* the latest page break: where, y it left, header emitted
  global_service, \* global rollup, insertion ordered
  po_service,     \* rollup of the outer group being drawn
  sIdx, poIdx, kIdx, docIdx, rowIdx,   \* loop positions of create_pdf
  truncated,      \* the row loop of the current document stopped early
  blk,            \* the block emitted by the latest step ("" if none)
  yBlock,         \* the cursor right after that block
  printed,        \* totals printed so far, in order
  draws,          \* draw commands issued so far
  wtext, wbudget, wout    \* argument and result of a bare wrap_text call

pipeVars   == <<columns, rows, pc, err, reported, po_group_col, df_clean, gi,
                po_groups, grand_subtotal, gst_amount, total_due>>
renderVars == <<y, page_num, hdrOnPage, lastBreak, global_service, po_service,
                sIdx, poIdx, kIdx, docIdx, rowIdx, truncated, blk, yBlock,
                printed, draws>>
wrapVars   == <<wtext, wbudget, wout>>
vars       == <<pipeVars, renderVars, wrapVars>>

NoBreak == [site |-> "", y |-> 0, hdr |-> FALSE, pages |-> 0]

RenderIdle ==
  /\ y = 0 /\ page_num = 0 /\ hdrOnPage = FALSE /\ lastBreak = NoBreak
  /\ global_service = <<>> /\ po_service = <<>>
  /\ sIdx = 0 /\ poIdx = 0 /\ kIdx = 0 /\ docIdx = 0 /\ rowIdx = 0
  /\ truncated = FALSE /\ blk = "" /\ yBlock = 0 /\ printed = <<>> /\ draws = 0

WrapIdle == wtext = <<>> /\ wbudget = 0 /\ wout = <<>>

\* the script has read the uploaded table and is about to validate it
Init ==
  /\ \E t \in Tables : columns = t.columns /\ rows = t.rows
  /\ pc = "validate_client"
  /\ err = "" /\ reported = <<>> /\ po_group_col = <<>>
  /\ df_clean = <<>> /\ gi = 0 /\ po_groups = <<>>
  /\ grand_subtotal = 0 /\ gst_amount = 0 /\ total_due = 0
  /\ RenderIdle
  /\ WrapIdle

HasColumn(col) == \E i \in 1..Len(columns) : columns[i] = col

Stop(reason) == pc' = "stopped" /\ err' = reason

(* ---------------------------- validation ------------------------------ *)
\* the tenant code the first row's Client must carry
AllowedClient == HE01

\* ClientOk without the comparison of the first row's value
ClientColumnOnly == HasColumn(ColClient)

ClientOk == HasColumn(ColClient) /\ rows[1].client = Str(AllowedClient)

\* lines 22-25; df["Client"].iloc[0] raises IndexError on a table without rows
ValidateClient ==
  /\ pc = "validate_client"
  /\ IF HasColumn(ColClient) /\ rows = <<>>
     THEN pc' = "crashed" /\ err' = "IndexError"
     ELSE IF ~ClientOk THEN Stop("client")
          ELSE pc' = "detect_column" /\ err' = err
  /\ UNCHANGED <<columns, rows, reported, po_group_col, df_clean, gi, po_groups,
                 grand_subtotal, gst_amount, total_due>>
  /\ UNCHANGED <<renderVars, wrapVars>>

\* col_map: normalized name -> column; a later column replaces an earlier one
InColMap(key) == \E i \in 1..Len(columns) : NormCol(columns[i]) = key
ColMap(key) ==
  columns[CHOOSE i \in 1..Len(columns) :
             /\ NormCol(columns[i]) = key
             /\ \A j \in 1..Len(columns) : NormCol(columns[j]) = key => j <= i]

\* the aliases looked up, in priority order
GroupAliases == <<KeyHR2, KeyHU2>>

AliasPresent == \E a \in 1..Len(GroupAliases) : InColMap(GroupAliases[a])

\* DetectedColumn with the branches of the chain swapped
DetectedColumnSwapped ==
  LET a == CHOOSE n \in 1..Len(GroupAliases) :
              /\ InColMap(GroupAliases[n])
              /\ \A m \in (n+1)..Len(GroupAliases) : ~InColMap(GroupAliases[m])
  IN ColMap(GroupAliases[a])

\* the if / elif chain of lines 33-38
DetectedColumn ==
  LET a == CHOOSE n \in 1..Len(GroupAliases) :
              /\ InColMap(GroupAliases[n])
              /\ \A m \in 1..(n-1) : ~InColMap(GroupAliases[m])
  IN ColMap(GroupAliases[a])

\* the list of available columns shown in the error of lines 41-48
Available == [i \in 1..Len(columns) |-> <<columns[i], NormCol(columns[i])>>]

\* lines 27-51
DetectGroupColumn ==
  /\ pc = "detect_column"
  /\ IF AliasPresent
     THEN /\ po_group_col' = DetectedColumn
          /\ pc' = "validate_billing_ref"
          /\ UNCHANGED <<err, reported>>
     ELSE /\ Stop("grouping_column")
          /\ reported' = Available
          /\ UNCHANGED po_group_col
  /\ UNCHANGED <<columns, rows, df_clean, gi, po_groups,
                 grand_subtotal, gst_amount, total_due>>
  /\ UNCHANGED <<renderVars, wrapVars>>

\* lines 53-56
ValidateBillingRef ==
  /\ pc = "validate_billing_ref"
  /\ IF HasColumn(ColBref) THEN pc' = "clean" /\ err' = err
     ELSE Stop("billing_ref")
  /\ UNCHANGED <<columns, rows, reported, po_group_col, df_clean, gi, po_groups,
                 grand_subtotal, gst_amount, total_due>>
  /\ UNCHANGED <<renderVars, wrapVars>>

(* ------------------------------ cleaning ------------------------------ *)
\* line 66: the rows whose amount coerces to a number
NumericIdx == {i \in 1..Len(rows) : to_numeric_amount(rows[i].amt).k = "num"}

\* KeepRow keeping zero amounts
KeepRowNonNegative(i) == to_numeric_amount(rows[i].amt).v >= 0

\* line 69: of those, the rows whose amount is positive
KeepRow(i) == to_numeric_amount(rows[i].amt).v > 0

CleanIdx == {i \in NumericIdx : KeepRow(i)}

RECURSIVE SortedSeq(_)
SortedSeq(S) == IF S = {} THEN <<>>
                ELSE LET m == CHOOSE x \in S : \A z \in S : x <= z
                     IN <<m>> \o SortedSeq(S \ {m})

CleanRow(i) == [idx |-> i,
                g    |-> CellOf(rows[i], po_group_col),
                bref |-> rows[i].bref,
                client |-> rows[i].client,
                svc  |-> rows[i].svc, desc |-> rows[i].desc, unit |-> rows[i].unit,
                qty  |-> to_numeric_qty(rows[i].qty).v,
                amt  |-> to_numeric_amount(rows[i].amt).v]

\* lines 65-69; line 68 raises when a quantity of a numeric-amount row does not parse
CleanData ==
  /\ pc = "clean"
  /\ IF \E i \in NumericIdx : ~Parses(rows[i].qty)
     THEN pc' = "crashed" /\ err' = "ValueError" /\ UNCHANGED df_clean
     ELSE /\ df_clean' = [n \in 1..Cardinality(CleanIdx) |-> CleanRow(SortedSeq(CleanIdx)[n])]
          /\ pc' = "check_empty" /\ err' = err
  /\ UNCHANGED <<columns, rows, reported, po_group_col, gi, po_groups,
                 grand_subtotal, gst_amount, total_due>>
  /\ UNCHANGED <<renderVars, wrapVars>>

\* lines 71-73
CheckEmpty ==
  /\ pc = "check_empty"
  /\ IF df_clean = <<>> THEN Stop("no_valid_rows") /\ gi' = gi
     ELSE pc' = "group" /\ err' = err /\ gi' = 1
  /\ UNCHANGED <<columns, rows, reported, po_group_col, df_clean, po_groups,
                 grand_subtotal, gst_amount, total_due>>
  /\ UNCHANGED <<renderVars, wrapVars>>


(* ------------------------------ grouping ------------------------------ *)
\* lines 80-81: str(cell).strip() if pd.notna(cell) else "UNSPECIFIED"
NormKey(cell) == IF notna(cell) THEN Strip(cell.s) ELSE UNSPECIFIED

\* the projection appended at lines 87-95 (idx: the row's index label in df)
LineOf(r) == [svc |-> r.svc, desc |-> r.desc, qty |-> r.qty, unit |-> r.unit,
              amt |-> r.amt, idx |-> r.idx]

PoIndex(groups, po) ==
  IF \E i \in 1..Len(groups) : groups[i].po = po
  THEN CHOOSE i \in 1..Len(groups) : groups[i].po = po ELSE 0

DocIndex(docs, doc) ==
  IF \E i \in 1..Len(docs) : docs[i].doc = doc
  THEN CHOOSE i \in 1..Len(docs) : docs[i].doc = doc ELSE 0

\* InsertLine overwriting the document's lines instead of appending
InsertLineReplace(groups, po, doc, line) ==
  LET g1 == IF PoIndex(groups, po) = 0
            THEN Append(groups, [po |-> po, docs |-> <<>>]) ELSE groups
      p  == PoIndex(g1, po)
      d1 == IF DocIndex(g1[p].docs, doc) = 0
            THEN Append(g1[p].docs, [doc |-> doc, lines |-> <<>>]) ELSE g1[p].docs
      d  == DocIndex(d1, doc)
  IN [g1 EXCEPT ![p].docs = [d1 EXCEPT ![d].lines = <<line>>]]

\* InsertLine putting a new outer group in front of the existing ones
InsertLineFront(groups, po, doc, line) ==
  LET g1 == IF PoIndex(groups, po) = 0
            THEN <<[po |-> po, docs |-> <<>>]>> \o groups ELSE groups
      p  == PoIndex(g1, po)
      d1 == IF DocIndex(g1[p].docs, doc) = 0
            THEN Append(g1[p].docs, [doc |-> doc, lines |-> <<>>]) ELSE g1[p].docs
      d  == DocIndex(d1, doc)
  IN [g1 EXCEPT ![p].docs = [d1 EXCEPT ![d].lines = Append(@, line)]]

\* lines 83-87: create the missing levels, then append
InsertLine(groups, po, doc, line) ==
  LET g1 == IF PoIndex(groups, po) = 0
            THEN Append(groups, [po |-> po, docs |-> <<>>]) ELSE groups
      p  == PoIndex(g1, po)
      d1 == IF DocIndex(g1[p].docs, doc) = 0
            THEN Append(g1[p].docs, [doc |-> doc, lines |-> <<>>]) ELSE g1[p].docs
      d  == DocIndex(d1, doc)
  IN [g1 EXCEPT ![p].docs = [d1 EXCEPT ![d].lines = Append(@, line)]]

\* one iteration of the loop of lines 79-95
GroupRow ==
  /\ pc = "group"
  /\ gi <= Len(df_clean)
  /\ po_groups' = InsertLine(po_groups, NormKey(df_clean[gi].g),
                             NormKey(df_clean[gi].bref), LineOf(df_clean[gi]))
  /\ gi' = gi + 1
  /\ UNCHANGED <<columns, rows, pc, err, reported, po_group_col, df_clean,
                 grand_subtotal, gst_amount, total_due>>
  /\ UNCHANGED <<renderVars, wrapVars>>

(* ------------------------------- totals ------------------------------- *)
RECURSIVE SumAmt(_)
SumAmt(ls) == IF ls = <<>> THEN 0 ELSE Head(ls).amt + SumAmt(Tail(ls))

\* gst_rate = 0.05, in percent
GstRatePct == 5

\* line 98
GrandSubtotal(clean) == SumAmt(clean)
\* GstAmount with a 7% rate
GstAmountSevenPct(subtotal) == subtotal * 7

\* line 100, in hundredths of a cent
GstAmount(subtotal) == subtotal * GstRatePct
\* line 101, in hundredths of a cent
TotalDue(subtotal, gst) == subtotal * 100 + gst

\* lines 97-101
ComputeTotals ==
  /\ pc = "group"
  /\ gi > Len(df_clean)
  /\ grand_subtotal' = GrandSubtotal(df_clean)
  /\ gst_amount' = GstAmount(GrandSubtotal(df_clean))
  /\ total_due' = TotalDue(GrandSubtotal(df_clean), GstAmount(GrandSubtotal(df_clean)))
  /\ pc' = "render_start"
  /\ UNCHANGED <<columns, rows, err, reported, po_group_col, df_clean, gi, po_groups>>
  /\ UNCHANGED <<renderVars, wrapVars>>

(* ------------------------------ rollups ------------------------------- *)
ServiceKey(l) == <<l.svc, l.desc, l.unit>>

KeyIndex(acc, key) ==
  IF \E i \in 1..Len(acc) : acc[i].key = key
  THEN CHOOSE i \in 1..Len(acc) : acc[i].key = key ELSE 0

\* RollupAdd assigning the row's quantity and amount instead of adding them
RollupAddOverwrite(acc, l) ==
  IF KeyIndex(acc, ServiceKey(l)) = 0
  THEN Append(acc, [key |-> ServiceKey(l), qty |-> l.qty, amt |-> l.amt])
  ELSE [acc EXCEPT ![KeyIndex(acc, ServiceKey(l))] =
          [@ EXCEPT !.qty = l.qty, !.amt = l.amt]]

RollupAdd(acc, l) ==
  IF KeyIndex(acc, ServiceKey(l)) = 0
  THEN Append(acc, [key |-> ServiceKey(l), qty |-> l.qty, amt |-> l.amt])
  ELSE [acc EXCEPT ![KeyIndex(acc, ServiceKey(l))] =
          [@ EXCEPT !.qty = @ + l.qty, !.amt = @ + l.amt]]

RECURSIVE RollupFrom(_, _)
RollupFrom(ls, acc) ==
  IF ls = <<>> THEN acc ELSE RollupFrom(Tail(ls), RollupAdd(acc, Head(ls)))

\* lines 158-164 and 187-193
Rollup(ls) == RollupFrom(ls, <<>>)

\* line 188: the lines of all documents of an outer group, in order
RECURSIVE AllLines(_)
AllLines(docs) == IF docs = <<>> THEN <<>>
                  ELSE Head(docs).lines \o AllLines(Tail(docs))

\* DocTotal summing only the rows the row loop drew
DocTotalDrawn(lines) == SumAmt(SubSeq(lines, 1, rowIdx))

\* line 288
DocTotal(lines) == SumAmt(lines)

\* line 300
RECURSIVE PoTotal(_)
PoTotal(docs) == IF docs = <<>> THEN 0
                 ELSE DocTotal(Head(docs).lines) + PoTotal(Tail(docs))


(* ------------------------------ create_pdf ---------------------------- *)
\* height of the letter page
PageHeight == 792
\* y = height - 50
TopOffset == 50
\* page-break threshold of summary, outer-group and rollup lines and of the totals
LineBreakY == 150
\* page-break threshold before a document box
DocBreakY == 200
\* the row loop of a document stops below this
RowStopY == 100
\* character budget of a description sub-line
MaxChars == 35
\* height of one description sub-line
RowLineHeight == 12
\* baseline of the footer line
FooterY == 50

PageTop == PageHeight - TopOffset

\* txt(x, y, text, size) returns y - (size + 4)
Txt(yy, size) == yy - (size + 4)

\* c.showPage(); page_num += 1; y = ...  (header: the running header is redrawn)
PageBreak(site, newY, header) ==
  /\ page_num' = page_num + 1
  /\ hdrOnPage' = header
  /\ lastBreak' = [site |-> site, y |-> newY, hdr |-> header, pages |-> page_num + 1]

NoPageBreak == UNCHANGED <<page_num, hdrOnPage, lastBreak>>

\* the cursor after the fixed blocks of page 1 (lines 113-156)
FirstPageY(logo) ==
  LET y1 == PageTop - (IF logo = "shown" THEN 80 ELSE 20)
      y2 == Txt(Txt(Txt(y1, 10), 9), 9) - 15
      y3 == y2 - 30
      y4 == Txt(Txt(Txt(Txt(y3, 10), 10), 9), 10) - 20
      y5 == Txt(Txt(Txt(y4, 10), 9), 9) - 30
  IN Txt(y5, 10) - 10

\* lines 104-164: letterhead, invoice header, bill-to, warehouse, summary title,
\* and the global rollup; the logo file may be shown, absent or unreadable
RenderStart ==
  /\ pc = "render_start"
  /\ \E logo \in {"shown", "absent", "unreadable"} :
       /\ y' = FirstPageY(logo)
       /\ draws' = 15 + (IF logo = "shown" THEN 1 ELSE 0)
  /\ page_num' = 1
  /\ hdrOnPage' = TRUE
  /\ global_service' = Rollup(df_clean)
  /\ sIdx' = 1
  /\ blk' = "letterhead" /\ yBlock' = y'
  /\ pc' = "summary"
  /\ UNCHANGED <<lastBreak, po_service, poIdx, kIdx, docIdx, rowIdx, truncated, printed>>
  /\ UNCHANGED <<columns, rows, err, reported, po_group_col, df_clean, gi, po_groups,
                 grand_subtotal, gst_amount, total_due>>
  /\ UNCHANGED wrapVars

\* lines 166-173: one line of the global summary
SummaryLine ==
  /\ pc = "summary"
  /\ sIdx <= Len(global_service)
  /\ LET yb == Txt(y, 9) - 14
     IN /\ blk' = "summary_line" /\ yBlock' = yb
        /\ IF yb < LineBreakY
           THEN y' = PageTop /\ PageBreak("summary", PageTop, FALSE)
           ELSE y' = yb /\ NoPageBreak
  /\ draws' = draws + 1
  /\ sIdx' = sIdx + 1
  /\ UNCHANGED <<global_service, po_service, poIdx, kIdx, docIdx, rowIdx, truncated, printed>>
  /\ UNCHANGED <<pipeVars, wrapVars>>

\* line 176
SummaryEnd ==
  /\ pc = "summary"
  /\ sIdx > Len(global_service)
  /\ y' = y - 20
  /\ poIdx' = 1
  /\ pc' = "po_head"
  /\ blk' = "" /\ yBlock' = y'
  /\ NoPageBreak
  /\ UNCHANGED <<global_service, po_service, sIdx, kIdx, docIdx, rowIdx, truncated,
                 printed, draws>>
  /\ UNCHANGED <<columns, rows, err, reported, po_group_col, df_clean, gi, po_groups,
                 grand_subtotal, gst_amount, total_due>>
  /\ UNCHANGED wrapVars

\* lines 177-196: page check, rollup of the outer group, its label
BeginPO ==
  /\ pc = "po_head"
  /\ poIdx <= Len(po_groups)
  /\ LET brk == y < LineBreakY
         ya  == IF brk THEN PageTop - 80 ELSE y
         yb  == Txt(ya, 10) - 5
     IN /\ IF brk THEN PageBreak("po", PageTop, TRUE) ELSE NoPageBreak
        /\ draws' = draws + 1 + (IF brk THEN 2 ELSE 0)
        /\ y' = yb
        /\ blk' = "po_label" /\ yBlock' = yb
  /\ po_service' = Rollup(AllLines(po_groups[poIdx].docs))
  /\ kIdx' = 1
  /\ pc' = "rollup"
  /\ UNCHANGED <<global_service, sIdx, poIdx, docIdx, rowIdx, truncated, printed>>
  /\ UNCHANGED <<columns, rows, err, reported, po_group_col, df_clean, gi, po_groups,
                 grand_subtotal, gst_amount, total_due>>
  /\ UNCHANGED wrapVars

\* lines 197-204: one rollup line of the outer group
RollupLine ==
  /\ pc = "rollup"
  /\ kIdx <= Len(po_service)
  /\ LET yb == Txt(y, 9) - 12
     IN /\ blk' = "rollup_line" /\ yBlock' = yb
        /\ IF yb < LineBreakY
           THEN y' = PageTop /\ PageBreak("rollup", PageTop, FALSE)
           ELSE y' = yb /\ NoPageBreak
  /\ draws' = draws + 1
  /\ kIdx' = kIdx + 1
  /\ UNCHANGED <<global_service, po_service, sIdx, poIdx, docIdx, rowIdx, truncated, printed>>
  /\ UNCHANGED <<pipeVars, wrapVars>>

\* line 205
RollupEnd ==
  /\ pc = "rollup"
  /\ kIdx > Len(po_service)
  /\ y' = y - 10
  /\ docIdx' = 1
  /\ pc' = "doc_head"
  /\ blk' = "" /\ yBlock' = y'
  /\ NoPageBreak
  /\ UNCHANGED <<global_service, po_service, sIdx, poIdx, kIdx, rowIdx, truncated,
                 printed, draws>>
  /\ UNCHANGED <<columns, rows, err, reported, po_group_col, df_clean, gi, po_groups,
                 grand_subtotal, gst_amount, total_due>>
  /\ UNCHANGED wrapVars

CurDocs == po_groups[poIdx].docs
CurLines == CurDocs[docIdx].lines

\* lines 208-230: page check, document label, table header
BeginDoc ==
  /\ pc = "doc_head"
  /\ docIdx <= Len(CurDocs)
  /\ LET brk == y < DocBreakY
         ya  == IF brk THEN PageTop - 80 ELSE y
     IN /\ IF brk THEN PageBreak("document", PageTop, TRUE) ELSE NoPageBreak
        /\ draws' = draws + 7 + (IF brk THEN 2 ELSE 0)
        /\ y' = Txt(ya, 9) - 8 - 12
  /\ rowIdx' = 1
  /\ truncated' = FALSE
  /\ pc' = "rows"
  /\ blk' = "" /\ yBlock' = y'
  /\ UNCHANGED <<global_service, po_service, sIdx, poIdx, kIdx, docIdx, printed>>
  /\ UNCHANGED <<columns, rows, err, reported, po_group_col, df_clean, gi, po_groups,
                 grand_subtotal, gst_amount, total_due>>
  /\ UNCHANGED wrapVars

\* line 264-265
NumLines(line) == Len(wrap_text(line.desc, MaxChars))

\* line 280: the row loop stops once the cursor is below the threshold
RowStop(yy) == yy < RowStopY

\* lines 262-281: one line-item row; the loop ends after the last row or at the break
DrawRow ==
  /\ pc = "rows"
  /\ LET n  == NumLines(CurLines[rowIdx])
         yb == y - n * RowLineHeight
     IN /\ y' = yb
        /\ draws' = draws + 5 + n
        /\ IF RowStop(yb) \/ rowIdx = Len(CurLines)
           THEN /\ pc' = "doc_foot"
                /\ truncated' = (rowIdx < Len(CurLines))
                /\ rowIdx' = rowIdx
           ELSE /\ pc' = "rows"
                /\ truncated' = truncated
                /\ rowIdx' = rowIdx + 1
  /\ blk' = "" /\ yBlock' = y'
  /\ NoPageBreak
  /\ UNCHANGED <<global_service, po_service, sIdx, poIdx, kIdx, docIdx, printed>>
  /\ UNCHANGED <<columns, rows, err, reported, po_group_col, df_clean, gi, po_groups,
                 grand_subtotal, gst_amount, total_due>>
  /\ UNCHANGED wrapVars

\* lines 283-298: metadata line, document subtotal, box
DocFoot ==
  /\ pc = "doc_foot"
  /\ y' = y - 5 - 15 - 25
  /\ printed' = Append(printed, [kind |-> "doc", po |-> po_groups[poIdx].po,
                                 doc |-> CurDocs[docIdx].doc,
                                 total |-> DocTotal(CurLines), gst |-> 0, due |-> 0])
  /\ draws' = draws + 3
  /\ docIdx' = docIdx + 1
  /\ pc' = "doc_head"
  /\ blk' = "document" /\ yBlock' = y'
  /\ NoPageBreak
  /\ UNCHANGED <<global_service, po_service, sIdx, poIdx, kIdx, rowIdx, truncated>>
  /\ UNCHANGED <<columns, rows, err, reported, po_group_col, df_clean, gi, po_groups,
                 grand_subtotal, gst_amount, total_due>>
  /\ UNCHANGED wrapVars

\* a group loop that writes the total line but stays on the same outer group
POTotalLineNoAdvance ==
  /\ pc = "doc_head"
  /\ docIdx > Len(CurDocs)
  /\ printed' = Append(printed, [kind |-> "po", po |-> po_groups[poIdx].po,
                                 doc |-> <<>>, total |-> PoTotal(CurDocs),
                                 gst |-> 0, due |-> 0])
  /\ y' = y - 40
  /\ draws' = draws + 1
  /\ poIdx' = poIdx
  /\ pc' = "po_head"
  /\ blk' = "po_total" /\ yBlock' = y'
  /\ NoPageBreak
  /\ UNCHANGED <<global_service, po_service, sIdx, kIdx, docIdx, rowIdx, truncated>>
  /\ UNCHANGED <<columns, rows, err, reported, po_group_col, df_clean, gi, po_groups,
                 grand_subtotal, gst_amount, total_due>>
  /\ UNCHANGED wrapVars

\* lines 300-303: total line of the outer group
POTotalLine ==
  /\ pc = "doc_head"
  /\ docIdx > Len(CurDocs)
  /\ printed' = Append(printed, [kind |-> "po", po |-> po_groups[poIdx].po,
                                 doc |-> <<>>, total |-> PoTotal(CurDocs),
                                 gst |-> 0, due |-> 0])
  /\ y' = y - 40
  /\ draws' = draws + 1
  /\ poIdx' = poIdx + 1
  /\ pc' = "po_head"
  /\ blk' = "po_total" /\ yBlock' = y'
  /\ NoPageBreak
  /\ UNCHANGED <<global_service, po_service, sIdx, kIdx, docIdx, rowIdx, truncated>>
  /\ UNCHANGED <<columns, rows, err, reported, po_group_col, df_clean, gi, po_groups,
                 grand_subtotal, gst_amount, total_due>>
  /\ UNCHANGED wrapVars

\* lines 305-323: page check, grand totals, footer, save
GrandTotals ==
  /\ pc = "po_head"
  /\ poIdx > Len(po_groups)
  /\ LET brk == y < LineBreakY
         ya  == IF brk THEN PageHeight - 100 ELSE y
     IN /\ IF brk THEN PageBreak("totals", PageHeight - 100, FALSE) ELSE NoPageBreak
        /\ y' = ya
        /\ blk' = "grand_totals" /\ yBlock' = ya
  /\ printed' = Append(printed, [kind |-> "grand", po |-> <<>>, doc |-> <<>>,
                                 total |-> grand_subtotal,
                                 gst |-> gst_amount, due |-> total_due])
  /\ draws' = draws + 4
  /\ pc' = "done"
  /\ UNCHANGED <<global_service, po_service, sIdx, poIdx, kIdx, docIdx, rowIdx, truncated>>
  /\ UNCHANGED <<columns, rows, err, reported, po_group_col, df_clean, gi, po_groups,
                 grand_subtotal, gst_amount, total_due>>
  /\ UNCHANGED wrapVars

(* --------------------------- specifications --------------------------- *)
Next ==
  \/ ValidateClient
  \/ DetectGroupColumn
  \/ ValidateBillingRef
  \/ CleanData
  \/ CheckEmpty
  \/ GroupRow
  \/ ComputeTotals
  \/ RenderStart
  \/ SummaryLine
  \/ SummaryEnd
  \/ BeginPO
  \/ RollupLine
  \/ RollupEnd
  \/ BeginDoc
  \/ DrawRow
  \/ DocFoot
  \/ POTotalLine
  \/ GrandTotals

Spec == Init /\ [][Next]_vars

\* wrap_text on its own: every text over {a, b, space} up to MaxLen characters,
\* every budget up to MaxBudget
WrapAlphabet == {"a", "b", " "}
WrapTexts == UNION {[1..n -> WrapAlphabet] : n \in 0..MaxLen}

InitWrap ==
  /\ wtext \in WrapTexts
  /\ wbudget \in 1..MaxBudget
  /\ wout = <<>>
  /\ pc = "wrap_call"
  /\ columns = <<>> /\ rows = <<>>
  /\ err = "" /\ reported = <<>> /\ po_group_col = <<>>
  /\ df_clean = <<>> /\ gi = 0 /\ po_groups = <<>>
  /\ grand_subtotal = 0 /\ gst_amount = 0 /\ total_due = 0
  /\ RenderIdle

\* desc_lines = wrap_text(text, max_chars)
WrapCall ==
  /\ pc = "wrap_call"
  /\ wout' = wrap_text(wtext, wbudget)
  /\ pc' = "wrap_done"
  /\ UNCHANGED <<wtext, wbudget>>
  /\ UNCHANGED <<columns, rows, err, reported, po_group_col, df_clean, gi, po_groups,
                 grand_subtotal, gst_amount, total_due>>
  /\ UNCHANGED renderVars

NextWrap == WrapCall

SpecWrap == InitWrap /\ [][NextWrap]_vars


(* ============================== claims ================================ *)
RenderPcs == {"summary", "po_head", "rollup", "doc_head", "rows", "doc_foot"}
\* grouping and totals are finished
Aggregated == pc \in {"render_start", "done"} \cup RenderPcs
\* create_pdf has started
Rendering == pc \in {"done"} \cup RenderPcs

RECURSIVE SumOver(_, _)
SumOver(S, f) == IF S = {} THEN 0
                 ELSE LET x == CHOOSE z \in S : TRUE
                      IN f[x] + SumOver(S \ {x}, f)

\* positions (outer group, document, line) of the hierarchy
Positions(groups) ==
  {<<p, d, l>> \in (1..Len(groups)) \X (1..MaxRows + MaxBulk) \X (1..MaxRows + MaxBulk) :
      d <= Len(groups[p].docs) /\ l <= Len(groups[p].docs[d].lines)}

LineAt(groups, pos) == groups[pos[1]].docs[pos[2]].lines[pos[3]]

\* the cleaned row carrying index label i
CleanByIdx(i) == df_clean[CHOOSE n \in 1..Len(df_clean) : df_clean[n].idx = i]
CleanLabels == {df_clean[n].idx : n \in 1..Len(df_clean)}

\* app2.py line 55: the subtotal taken from the hierarchy
RECURSIVE GrandSubtotalFromGroups(_)
GrandSubtotalFromGroups(groups) ==
  IF groups = <<>> THEN 0
  ELSE PoTotal(Head(groups).docs) + GrandSubtotalFromGroups(Tail(groups))

PrintedOf(kind) == SelectSeq(printed, LAMBDA e : e.kind = kind)
RECURSIVE SumTotals(_)
SumTotals(es) == IF es = <<>> THEN 0 ELSE Head(es).total + SumTotals(Tail(es))

\* C1: once the totals are computed, grand_subtotal is the sum of the amounts of
\* the cleaned rows, one term per row; it equals the sum of the outer-group
\* totals of the hierarchy (each row sits at exactly one position), and at the
\* end of rendering it equals the sum of the printed outer-group totals.
C1_SubtotalCountsEachRowOnce ==
  Aggregated =>
    /\ grand_subtotal = SumOver(CleanLabels, [i \in CleanLabels |-> CleanByIdx(i).amt])
    /\ grand_subtotal = GrandSubtotalFromGroups(po_groups)
    /\ \A i \in CleanLabels :
         Cardinality({pos \in Positions(po_groups) : LineAt(po_groups, pos).idx = i}) = 1
    /\ Cardinality(Positions(po_groups)) = Len(df_clean)
    /\ pc = "done" => SumTotals(PrintedOf("po")) = grand_subtotal

\* two cleaned rows of one document plus rendering finished over two documents
C1_Witness ==
  /\ pc = "done"
  /\ Len(df_clean) = 2
  /\ Len(po_groups) = 1 /\ Len(po_groups[1].docs) = 2
  /\ grand_subtotal = 15000

C1_WitnessSameDoc ==
  /\ pc = "done"
  /\ Len(df_clean) = 2
  /\ Len(po_groups) = 1 /\ Len(po_groups[1].docs) = 1

\* rows of the cleaned set under an outer key / under an (outer, inner) key
RowsOfPo(po) == {i \in CleanLabels : NormKey(CleanByIdx(i).g) = po}
RowsOfDoc(po, doc) == {i \in RowsOfPo(po) : NormKey(CleanByIdx(i).bref) = doc}
AmtOf == [i \in CleanLabels |-> CleanByIdx(i).amt]

\* C2: every printed outer-group total is the sum of the printed document totals
\* of that group and the sum of the amounts of the cleaned rows with that outer
\* key; every printed document total is the sum over all rows of the document,
\* drawn or skipped by the truncation.
C2_GroupTotals ==
  \A n \in 1..Len(printed) :
    LET e == printed[n] IN
      /\ e.kind = "doc" => e.total = SumOver(RowsOfDoc(e.po, e.doc), AmtOf)
      /\ e.kind = "po" =>
           /\ e.total = SumOver(RowsOfPo(e.po), AmtOf)
           /\ e.total = SumTotals(SelectSeq(PrintedOf("doc"), LAMBDA d : d.po = e.po))

\* a truncated document (a row skipped) whose subtotal and group total are printed
C2_Witness ==
  /\ truncated
  /\ blk = "po_total"
  /\ printed[Len(printed)].total = 20000

\* a key cell that is missing or blank (null, empty or whitespace only)
MissingOrBlank(cell) == ~notna(cell) \/ Strip(cell.s) = <<>>

\* C3: after aggregation every cleaned row sits at exactly one position, in the
\* group named by its trimmed keys, a missing or blank outer or inner key being
\* replaced by "UNSPECIFIED".
C3_PartitionWithSentinel ==
  Aggregated =>
    \A i \in CleanLabels :
      /\ Cardinality({pos \in Positions(po_groups) : LineAt(po_groups, pos).idx = i}) = 1
      /\ \A pos \in Positions(po_groups) :
           LineAt(po_groups, pos).idx = i =>
             /\ po_groups[pos[1]].po =
                  (IF MissingOrBlank(CleanByIdx(i).g) THEN UNSPECIFIED
                   ELSE Strip(CleanByIdx(i).g.s))
             /\ po_groups[pos[1]].docs[pos[2]].doc =
                  (IF MissingOrBlank(CleanByIdx(i).bref) THEN UNSPECIFIED
                   ELSE Strip(CleanByIdx(i).bref.s))

\* raw rows whose Charge Amount is a number, or text that reads as one, above zero
AmountValue(cell) == IF cell.k = "num" THEN cell.v ELSE 100 * DecimalValue(Strip(cell.s))
PositiveRows ==
  {i \in 1..Len(rows) :
     /\ rows[i].amt.k = "num" \/ (rows[i].amt.k = "str" /\ Parses(rows[i].amt))
     /\ AmountValue(rows[i].amt) > 0}
RawAmt == [i \in 1..Len(rows) |-> IF i \in PositiveRows THEN AmountValue(rows[i].amt) ELSE 0]
RawQty == [i \in 1..Len(rows) |-> to_numeric_qty(rows[i].qty).v]
RECURSIVE SumField(_, _)
SumField(es, f) == IF es = <<>> THEN 0 ELSE Head(es)[f] + SumField(Tail(es), f)
PositiveOfPo(po) == {i \in PositiveRows : NormKey(CellOf(rows[i], po_group_col)) = po}

\* C4: the rows found in the hierarchy are exactly the raw rows with a numeric
\* amount above zero; grand_subtotal, the global rollup and each outer group's
\* rollup add up the amounts and quantities of exactly those rows.
C4_OnlyPositiveRowsContribute ==
  /\ Aggregated =>
       /\ {LineAt(po_groups, pos).idx : pos \in Positions(po_groups)} = PositiveRows
       /\ grand_subtotal = SumOver(PositiveRows, RawAmt)
  /\ Rendering =>
       /\ SumField(global_service, "amt") = SumOver(PositiveRows, RawAmt)
       /\ SumField(global_service, "qty") = SumOver(PositiveRows, RawQty)
  /\ pc \in {"rollup", "doc_head", "rows", "doc_foot"} =>
       /\ SumField(po_service, "amt") = SumOver(PositiveOfPo(po_groups[poIdx].po), RawAmt)
       /\ SumField(po_service, "qty") = SumOver(PositiveOfPo(po_groups[poIdx].po), RawQty)

\* a table with a dropped row (zero, negative or non-numeric) and a kept one, rendered
C4_Witness ==
  /\ pc = "done"
  /\ Len(rows) = 2
  /\ Cardinality(PositiveRows) = 1
  /\ \E i \in 1..2 : rows[i].amt.k = "num" /\ rows[i].amt.v <= 0

\* C5: gst_amount is 5% of grand_subtotal and total_due is their sum (both held in
\* hundredths of a cent); the printed values are those global values; two rows of
\* 100.00 and 50.00 under one outer key give 150.00, 7.50 and 157.50.
C5_TaxOnGlobalSubtotal ==
  Aggregated =>
    /\ 100 * gst_amount = 5 * (100 * grand_subtotal)
    /\ total_due = 100 * grand_subtotal + gst_amount
    /\ pc = "done" =>
         /\ printed[Len(printed)].total = grand_subtotal
         /\ 100 * printed[Len(printed)].gst = 5 * (100 * grand_subtotal)
         /\ printed[Len(printed)].due = 100 * grand_subtotal + printed[Len(printed)].gst
    /\ (/\ Len(df_clean) = 2
        /\ df_clean[1].amt = 10000 /\ df_clean[2].amt = 5000) =>
         /\ grand_subtotal = 15000 /\ gst_amount = 75000 /\ total_due = 1575000

\* the scenario: PO1 with DOC1 (100.00) and DOC2 (50.00), rendered
C5_Witness ==
  /\ pc = "done"
  /\ Len(po_groups) = 1 /\ po_groups[1].po = P1
  /\ Len(po_groups[1].docs) = 2
  /\ po_groups[1].docs[1].doc = D1 /\ po_groups[1].docs[2].doc = D2
  /\ df_clean[1].amt = 10000 /\ df_clean[2].amt = 5000
  /\ printed[Len(printed)].total = 15000
  /\ printed[Len(printed)].gst = 75000
  /\ printed[Len(printed)].due = 1575000


\* the bottom margin of a page: the baseline of the footer line
BottomMargin == FooterY

\* the blocks whose end position the layout is meant to keep on the page
EmittedBlocks == {"summary_line", "po_label", "document", "po_total", "grand_totals"}

\* C6: after every emitted block (summary line, outer-group label, document block,
\* outer-group total line, grand-totals block) the cursor is at or above the bottom
\* margin, unless the document being closed had its row loop truncated.
C6_CursorStaysAboveBottomMargin ==
  (blk \in EmittedBlocks /\ ~truncated) => yBlock >= BottomMargin

\* C6, first half: a step that draws a line-item row never starts a page.
C6_NoBreakInsideRow == [][pc = "rows" => page_num' = page_num]_vars

NoWhitespace(t) == \A i \in 1..Len(t) : ~IsSpace(t[i])

\* C7: with budget N, a text of at most N characters comes back as the single line
\* it is, and a text of N+1 characters without whitespace comes back hard-split:
\* lines of 1..N characters whose concatenation is the text.
C7_ShortUnchangedLongHardSplit ==
  pc = "wrap_done" =>
    /\ Len(wtext) <= wbudget => wout = <<wtext>>
    /\ (Len(wtext) = wbudget + 1 /\ NoWhitespace(wtext)) =>
         /\ \A n \in 1..Len(wout) : Len(wout[n]) >= 1 /\ Len(wout[n]) <= wbudget
         /\ Concat(wout) = wtext

\* the validation rules, read off the table
Rule_Client == /\ \E i \in 1..Len(columns) : columns[i] = ColClient
               /\ Len(rows) >= 1
               /\ rows[1].client.k = "str" /\ rows[1].client.s = HE01
Rule_GroupColumn == \E i \in 1..Len(columns) : NormCol(columns[i]) \in {KeyHR2, KeyHU2}
Rule_BillingRef == \E i \in 1..Len(columns) : columns[i] = ColBref
Rule_NotEmpty == PositiveRows # {}
AllRulesPass == Rule_Client /\ Rule_GroupColumn /\ Rule_BillingRef /\ Rule_NotEmpty

\* C8: grouping and rendering are reached only when every validation rule passes;
\* when one fails the run ends stopped (or dead on the exception of an empty
\* table), with an error recorded, nothing grouped, no page and no draw command.
C8_FailureStopsBeforeGrouping ==
  /\ (pc = "group" \/ Aggregated) => AllRulesPass
  /\ ~AllRulesPass =>
       /\ pc \in {"validate_client", "detect_column", "validate_billing_ref",
                  "clean", "check_empty", "stopped", "crashed"}
       /\ po_groups = <<>> /\ gi = 0
       /\ page_num = 0 /\ draws = 0 /\ printed = <<>>
  /\ pc = "stopped" => (err # "" /\ ~AllRulesPass)

\* a table that passes the column rules and loses every row in cleaning
C8_Witness ==
  /\ pc = "stopped" /\ err = "no_valid_rows"
  /\ Len(rows) = 2 /\ Rule_Client /\ Rule_GroupColumn /\ Rule_BillingRef

KeyHref == <<"h","e","a","d","e","r","r","e","f">>

NormPresent(key) == \E i \in 1..Len(columns) : NormCol(columns[i]) = key
TopAlias(aliases) ==
  aliases[CHOOSE n \in 1..Len(aliases) :
            NormPresent(aliases[n]) /\ \A m \in 1..(n-1) : ~NormPresent(aliases[m])]

\* the outer-grouping column is resolved against the alias list: with an alias
\* present the detected column normalizes to the first present alias and every
\* line is grouped under that column's key; with none the run stops on the
\* grouping-column error, which lists the table's columns
ResolvedAgainst(aliases) ==
  (Rule_Client /\ pc \notin {"validate_client", "detect_column"}) =>
    IF \E n \in 1..Len(aliases) : NormPresent(aliases[n])
    THEN /\ err # "grouping_column"
         /\ \E i \in 1..Len(columns) : columns[i] = po_group_col
         /\ NormCol(po_group_col) = TopAlias(aliases)
         /\ \A pos \in Positions(po_groups) :
              po_groups[pos[1]].po =
                NormKey(CellOf(rows[LineAt(po_groups, pos).idx], po_group_col))
    ELSE /\ pc = "stopped" /\ err = "grouping_column"
         /\ Len(reported) = Len(columns)
         /\ \A i \in 1..Len(columns) : reported[i][1] = columns[i]

\* C9 as claimed: the alias list is Header Reference 2, Header User 2, Header ref.
C9_ThreeAliases == ResolvedAgainst(<<KeyHR2, KeyHU2, KeyHref>>)

\* C9 amended: the alias list is Header Reference 2, Header User 2; a table whose
\* only candidate is Header ref fails validation like one with none.
C9_TwoAliases == ResolvedAgainst(<<KeyHR2, KeyHU2>>)

\* both aliases present, the lower-priority one first in the table: rendered,
\* grouped by Header Reference 2
C9_Witness ==
  /\ pc = "done"
  /\ columns = <<ColClient, ColHU2, ColHR2, ColBref>>
  /\ po_group_col = ColHR2
  /\ Len(po_groups) = 2

\* a table with Header ref only: stopped, columns listed
C9_WitnessHeaderRef ==
  /\ pc = "stopped" /\ err = "grouping_column"
  /\ columns = <<ColClient, ColHref, ColBref>>
  /\ reported # <<>>

\* C10: every page break resets y to the top margin and re-emits the running
\* header, so every page carries the header.
C10_EveryBreakReprintsHeader ==
  /\ lastBreak.site # "" => (lastBreak.hdr /\ lastBreak.y = PageTop)
  /\ page_num >= 1 => hdrOnPage

\* C10, the part that holds: a page break adds exactly one to page_num.
C10_BreakAddsOnePage ==
  [][lastBreak' # lastBreak => page_num' = page_num + 1 /\ lastBreak'.pages = page_num']_vars

\* ---- layout states of one render pass ----

\* the layout state the render pass is in: the part of the invoice the last
\* step wrote (the label, the rollup and the total line of an outer group are
\* its WRITING_GROUP part, a document box from its label to its subtotal is
\* WRITING_DOCUMENT)
LayoutState ==
  CASE blk = "letterhead" -> "WRITING_HEADER"
    [] blk = "summary_line" -> "WRITING_SUMMARY"
    [] blk \in {"po_label", "rollup_line", "po_total"} -> "WRITING_GROUP"
    [] blk = "document" -> "WRITING_DOCUMENT"
    [] blk = "grand_totals" -> "WRITING_TOTALS"
    [] blk = "" /\ pc \in {"rows", "doc_foot"} -> "WRITING_DOCUMENT"
    [] blk = "" /\ pc = "doc_head" -> "WRITING_GROUP"
    [] blk = "" /\ pc = "po_head" -> "WRITING_SUMMARY"
    [] OTHER -> "IDLE"

LayoutRank(s) ==
  CASE s = "WRITING_HEADER" -> 1
    [] s = "WRITING_SUMMARY" -> 2
    [] s = "WRITING_GROUP" -> 3
    [] s = "WRITING_DOCUMENT" -> 4
    [] s = "WRITING_TOTALS" -> 5
    [] OTHER -> 0

\* C11 as stated: within one render pass the layout state only moves forward
\* through WRITING_HEADER, WRITING_SUMMARY, WRITING_GROUP, WRITING_DOCUMENT,
\* WRITING_TOTALS; no step enters a state earlier than the one it leaves.
C11_ForwardOnly ==
  [][LayoutRank(LayoutState') >= LayoutRank(LayoutState)]_vars

\* the moves between layout states that a step may make
LayoutMoves ==
  {<<"IDLE", "IDLE">>, <<"IDLE", "WRITING_HEADER">>,
   <<"WRITING_HEADER", "WRITING_SUMMARY">>,
   <<"WRITING_SUMMARY", "WRITING_SUMMARY">>, <<"WRITING_SUMMARY", "WRITING_GROUP">>,
   <<"WRITING_GROUP", "WRITING_GROUP">>, <<"WRITING_GROUP", "WRITING_DOCUMENT">>,
   <<"WRITING_DOCUMENT", "WRITING_DOCUMENT">>, <<"WRITING_DOCUMENT", "WRITING_GROUP">>,
   <<"WRITING_GROUP", "WRITING_TOTALS">>}

\* C11, amended: WRITING_HEADER and WRITING_SUMMARY are passed once, in this
\* order, and WRITING_TOTALS is entered last and never left; between them the
\* pass alternates WRITING_GROUP and WRITING_DOCUMENT once per outer group: the
\* only step back is from a document to the total line of its outer group, and
\* the label of an outer group is written exactly when all groups before it are
\* closed by their total line and it is not.
C11_ForwardExceptGroupLoop ==
  [][/\ <<LayoutState, LayoutState'>> \in LayoutMoves
     /\ (LayoutState = "WRITING_DOCUMENT" /\ LayoutState' = "WRITING_GROUP"
           => blk' = "po_total")
     /\ (blk' = "po_label" /\ blk # "po_label"
           => Len(PrintedOf("po"))' = poIdx' - 1)
     /\ (LayoutState = "WRITING_TOTALS" => LayoutState' = "WRITING_TOTALS")]_vars

\* the label of a second outer group is written after the documents of the first
C11_Witness ==
  /\ blk = "po_label" /\ poIdx = 2
  /\ Len(PrintedOf("doc")) >= 1 /\ Len(PrintedOf("po")) = 1

\* ---- encounter order ----

\* position in df_clean of the first row with outer key po
FirstRowOfPo(po) ==
  CHOOSE n \in 1..Len(df_clean) :
    /\ NormKey(df_clean[n].g) = po
    /\ \A k \in 1..(n - 1) : NormKey(df_clean[k].g) # po

\* position in df_clean of the first row of document doc of outer group po
FirstRowOfDoc(po, doc) ==
  CHOOSE n \in 1..Len(df_clean) :
    /\ NormKey(df_clean[n].g) = po /\ NormKey(df_clean[n].bref) = doc
    /\ \A k \in 1..(n - 1) :
         ~(NormKey(df_clean[k].g) = po /\ NormKey(df_clean[k].bref) = doc)

\* the cleaned rows of one document, in the order of df_clean
CleanRowsOf(po, doc) ==
  SelectSeq(df_clean, LAMBDA r : NormKey(r.g) = po /\ NormKey(r.bref) = doc)

\* the (outer key, document key) pairs of the hierarchy, in hierarchy order
RECURSIVE DocOrder(_)
DocOrder(groups) ==
  IF groups = <<>> THEN <<>>
  ELSE [d \in 1..Len(Head(groups).docs) |->
          <<Head(groups).po, Head(groups).docs[d].doc>>] \o DocOrder(Tail(groups))

IsPrefix(a, b) == Len(a) <= Len(b) /\ SubSeq(b, 1, Len(a)) = a

\* C12: the outer groups are exactly the outer keys of the cleaned rows, ordered
\* by the first appearance of the key in df_clean; the documents of a group are
\* ordered by the first appearance of their key within the group; the lines of
\* a document are its cleaned rows in the order of df_clean; and the document
\* subtotals and group totals are printed in this order, all of them by the end.
C12_EncounterOrder ==
  Aggregated =>
    /\ {po_groups[p].po : p \in 1..Len(po_groups)}
         = {NormKey(df_clean[n].g) : n \in 1..Len(df_clean)}
    /\ \A p, q \in 1..Len(po_groups) :
         p < q => FirstRowOfPo(po_groups[p].po) < FirstRowOfPo(po_groups[q].po)
    /\ \A p \in 1..Len(po_groups) :
         LET po == po_groups[p].po
             docs == po_groups[p].docs
         IN /\ {docs[d].doc : d \in 1..Len(docs)}
                 = {NormKey(df_clean[n].bref) :
                      n \in {k \in 1..Len(df_clean) : NormKey(df_clean[k].g) = po}}
            /\ \A d, e \in 1..Len(docs) :
                 d < e => FirstRowOfDoc(po, docs[d].doc) < FirstRowOfDoc(po, docs[e].doc)
            /\ \A d \in 1..Len(docs) :
                 docs[d].lines = [n \in 1..Len(CleanRowsOf(po, docs[d].doc)) |->
                                    LineOf(CleanRowsOf(po, docs[d].doc)[n])]
    /\ LET pdocs == PrintedOf("doc")
           ppos  == PrintedOf("po")
           docSeq == [n \in 1..Len(pdocs) |-> <<pdocs[n].po, pdocs[n].doc>>]
           poSeq  == [n \in 1..Len(ppos) |-> ppos[n].po]
           keys   == [p \in 1..Len(po_groups) |-> po_groups[p].po]
       IN /\ IsPrefix(docSeq, DocOrder(po_groups))
          /\ IsPrefix(poSeq, keys)
          /\ pc = "done" => docSeq = DocOrder(po_groups) /\ poSeq = keys

\* an invoice whose first row is of PO2 and second of PO1 lists PO2 first
C12_Witness ==
  /\ pc = "done" /\ Len(po_groups) = 2
  /\ po_groups[1].po = P2 /\ po_groups[2].po = P1
  /\ Len(PrintedOf("po")) = 2 /\ PrintedOf("po")[1].po = P2

\* C13: for a description with at least one word, every sub-line wrap_text
\* returns is non-empty and at most the character budget long.
C13_SubLinesWithinBudget ==
  (pc = "wrap_done" /\ \E i \in 1..Len(wtext) : ~IsSpace(wtext[i])) =>
    \A n \in 1..Len(wout) : Len(wout[n]) >= 1 /\ Len(wout[n]) <= wbudget

\* ---- rollups ----

\* the service rollup of outer group p (lines 187-193)
GroupRollup(p) == Rollup(AllLines(po_groups[p].docs))

\* field f of key in a rollup, 0 when the rollup has no such key
FieldOfKey(acc, key, f) ==
  IF KeyIndex(acc, key) = 0 THEN 0 ELSE acc[KeyIndex(acc, key)][f]

RECURSIVE KeySumOverGroups(_, _, _)
KeySumOverGroups(n, key, f) ==
  IF n = 0 THEN 0
  ELSE FieldOfKey(GroupRollup(n), key, f) + KeySumOverGroups(n - 1, key, f)

RollupKeys(acc) == {acc[i].key : i \in 1..Len(acc)}

\* C14: while the invoice is rendered, the amounts of the global rollup add up to
\* grand_subtotal; the amounts of every outer group's rollup add up to that
\* group's total, which is the total printed for it; and for every key the
\* global amount and quantity are the sums of the key's per-group amounts and
\* quantities, every per-group key being a global key.
C14_RollupsConserveTotals ==
  Rendering =>
    /\ global_service = Rollup(df_clean)
    /\ SumField(global_service, "amt") = grand_subtotal
    /\ \A p \in 1..Len(po_groups) :
         /\ SumField(GroupRollup(p), "amt") = PoTotal(po_groups[p].docs)
         /\ RollupKeys(GroupRollup(p)) \subseteq RollupKeys(global_service)
    /\ pc \in {"rollup", "doc_head", "rows", "doc_foot"} => po_service = GroupRollup(poIdx)
    /\ blk = "po_total" => printed[Len(printed)].total = SumField(po_service, "amt")
    /\ \A i \in 1..Len(global_service) :
         /\ global_service[i].amt
              = KeySumOverGroups(Len(po_groups), global_service[i].key, "amt")
         /\ global_service[i].qty
              = KeySumOverGroups(Len(po_groups), global_service[i].key, "qty")

\* one service key charged in two outer groups
C14_Witness ==
  /\ pc = "done" /\ Len(po_groups) = 2 /\ Len(global_service) = 1
  /\ FieldOfKey(GroupRollup(1), global_service[1].key, "amt") > 0
  /\ FieldOfKey(GroupRollup(2), global_service[1].key, "amt") > 0

\* C15: every cleaned row, and so every row of a document group, of a rollup
\* and of grand_subtotal, has the allowed client code in its Client cell.
C15_OnlyAllowedClientInvoiced ==
  Aggregated =>
    /\ \A n \in 1..Len(df_clean) : df_clean[n].client = Str(AllowedClient)
    /\ \A pos \in Positions(po_groups) :
         rows[LineAt(po_groups, pos).idx].client = Str(AllowedClient)

====
